---- MODULE Spec2Model ----
(***************************************************************************)
(* Model of src-tauri/src/fetcher.rs: ArchonFetcher, its request gate (a   *)
(* tokio Semaphore with MAX_CONCURRENT_REQUESTS permits), the response     *)
(* classification of fetch_talent_build and the pure extractor             *)
(* extract_talent_string.                                                  *)
(*                                                                         *)
(* Strings are sequences of tokens.  The token "h" stands for the text     *)
(* "https://www.", "w" for "wowhead.com/talent-calc/blizzard/" and "x"     *)
(* for any other text, so that WOWHEAD_PREFIX is <<"h","w">> and the       *)
(* selector's substring is <<"w">>.  A parsed document is the sequence of  *)
(* its elements in document order.                                         *)
(***************************************************************************)
EXTENDS Naturals, Integers, Sequences, FiniteSets, TLC

\* ---------------------------------------------------------------- bounds
NumCalls == 7          \* concurrent fetch_talent_build calls, K > 5 and two may wait
MaxHrefLen == 3        \* tokens in an href
MaxElems == 2          \* elements in a document handed to the extractor

\* ------------------------------------------------------------- constants
MAX_CONCURRENT_REQUESTS == 5

WOWHEAD_PREFIX == <<"h", "w">>

SELECTOR_SUBSTR == <<"w">>

Calls == 1 .. NumCalls

\* --------------------------------------------------------------- strings
Tokens == {"h", "w", "x"}

SeqsUpTo(S, n) == UNION {[1 .. k -> S] : k \in 0 .. n}

Hrefs == SeqsUpTo(Tokens, MaxHrefLen)

\* str::contains: some window of s equals pat
Contains(s, pat) ==
    \E k \in 0 .. Len(s) :
        /\ k + Len(pat) <= Len(s)
        /\ SubSeq(s, k + 1, k + Len(pat)) = pat

StartsWith(s, pat) ==
    /\ Len(pat) <= Len(s)
    /\ SubSeq(s, 1, Len(pat)) = pat

\* Option<T>: None is <<>>, Some(v) is <<v>>
None == <<>>

Some(v) == <<v>>

IsSome(o) == Len(o) = 1

\* variant: the prefix is tested and the whole href is kept
StripPrefix_Whole(s, pat) ==
    IF StartsWith(s, pat) THEN Some(s) ELSE None

\* variant: an empty remainder is turned into None
StripPrefix_NonEmpty(s, pat) ==
    IF StartsWith(s, pat) /\ Len(s) > Len(pat)
    THEN Some(SubSeq(s, Len(pat) + 1, Len(s)))
    ELSE None

\* str::strip_prefix
StripPrefix(s, pat) ==
    IF StartsWith(s, pat) THEN Some(SubSeq(s, Len(pat) + 1, Len(s))) ELSE None

\* ------------------------------------------------------------- documents
\* an element: its tag and its href attribute (None when absent)
Elem(tag, href) == [tag |-> tag, href |-> href]

Elems ==
    {Elem("a", h) : h \in {None} \cup {Some(s) : s \in Hrefs}}
        \cup {Elem("div", None), Elem("div", Some(<<"h", "w", "x">>))}

\* variant: the selector has no element name, [href*='...']
Matches_AnyTag(el) ==
    /\ IsSome(el.href)
    /\ Contains(el.href[1], SELECTOR_SUBSTR)

\* variant: the selector asks for the whole prefix, a[href^='https://www...']
Matches_Prefix(el) ==
    /\ el.tag = "a"
    /\ IsSome(el.href)
    /\ StartsWith(el.href[1], WOWHEAD_PREFIX)

\* a[href*='wowhead.com/talent-calc/blizzard/']
Matches(el) ==
    /\ el.tag = "a"
    /\ IsSome(el.href)
    /\ Contains(el.href[1], SELECTOR_SUBSTR)

\* variant: document.select(&selector).last()
FirstMatch_Last(doc) ==
    IF \E k \in 1 .. Len(doc) : Matches(doc[k])
    THEN CHOOSE k \in 1 .. Len(doc) :
            /\ Matches(doc[k])
            /\ \A j \in (k + 1) .. Len(doc) : ~Matches(doc[j])
    ELSE 0

\* document.select(&selector).next(): index of the first match, 0 if none
FirstMatch(doc) ==
    IF \E k \in 1 .. Len(doc) : Matches(doc[k])
    THEN CHOOSE k \in 1 .. Len(doc) :
            /\ Matches(doc[k])
            /\ \A j \in 1 .. (k - 1) : ~Matches(doc[j])
    ELSE 0

\* Result<Option<String>>
Pending == [kind |-> "Pending", opt |-> None, cause |-> ""]

Ok(o) == [kind |-> "Ok", opt |-> o, cause |-> ""]

Err(c) == [kind |-> "Err", opt |-> None, cause |-> c]

extract_talent_string(doc) ==
    LET k == FirstMatch(doc) IN
    IF k = 0 THEN Ok(None)
    ELSE LET href == doc[k].href IN
         IF ~IsSome(href) THEN Ok(None)
         ELSE Ok(StripPrefix(href[1], WOWHEAD_PREFIX))

\* FetchOutcome as the caller sees it
Outcome(r) ==
    IF r.kind = "Err" THEN "Failed"
    ELSE IF r.kind = "Ok" /\ IsSome(r.opt) THEN "Found"
    ELSE IF r.kind = "Ok" THEN "NotFound"
    ELSE "Pending"

\* StatusCode::is_success
is_success(s) == s >= 200 /\ s <= 299

INTERNAL_SERVER_ERROR == 500

\* ------------------------------------------------- environment's answers
Statuses == {200, 204, 404, 500, 503}

A(s) == Elem("a", Some(s))

Bodies ==
    { <<>>,
      << A(<<"h", "w", "x">>) >>,
      << A(<<"h", "w">>) >>,
      << A(<<"x", "w", "x">>), A(<<"h", "w", "x">>) >>,
      << Elem("a", None), A(<<"h", "w", "x", "x">>), A(<<"h", "w">>) >> }

\* ----------------------------------------------------------------- state
VARIABLES
    permits,     \* semaphore: permits available
    waiters,     \* semaphore: queue of calls waiting in acquire(), oldest first
    closed,      \* semaphore: closed
    pc,          \* per call: the await point it is at
    permit,      \* per call: its _permit local holds a permit
    gets,        \* per call: HTTP GETs issued
    status,      \* per call: status of the response it holds, 0 if none
    last,        \* the most recent return: what that call saw, wrote and returned
    ex_html,     \* extractor on its own: input
    ex_result    \* extractor on its own: output

gate == <<permits, waiters, closed>>

ex == <<ex_html, ex_result>>

vars == <<permits, waiters, closed, pc, permit, gets, status, last, ex_html, ex_result>>

\* what one call saw and did, recorded when it returns:
\*   held    it held a permit of the gate
\*   send    "none" (no request), "err" (transport failure) or "ok"
\*   status  the response's status, 0 if there was none
\*   body    "none" (text() not called), "err" or "ok"; html is the text read
\*   logs    the eprintln! lines written
\*   extracted  runs of extract_talent_string
Record(held, send, st, bd, h, lg, n, r) ==
    [held |-> held, send |-> send, status |-> st, body |-> bd, html |-> h,
     logs |-> lg, extracted |-> n, result |-> r]

NoReturn == Record(FALSE, "none", 0, "none", <<>>, <<>>, 0, Pending)

\* ArchonFetcher::new, and no call made yet
Init ==
    /\ permits = MAX_CONCURRENT_REQUESTS
    /\ waiters = <<>>
    /\ closed = FALSE
    /\ pc = [i \in Calls |-> "start"]
    /\ permit = [i \in Calls |-> FALSE]
    /\ gets = [i \in Calls |-> 0]
    /\ status = [i \in Calls |-> 0]
    /\ last = NoReturn
    /\ ex_html = <<>>
    /\ ex_result = Pending

\* client.get(url).send(): the request goes out
IssueGet(i) ==
    /\ gets' = [gets EXCEPT ![i] = @ + 1]
    /\ pc' = [pc EXCEPT ![i] = "sending"]

\* the calls are numbered in the order in which they reach acquire()
Arrived(i) == \A j \in Calls : j < i => pc[j] # "start"

\* variant: the semaphore is made anew for each call, so a call always
\* finds a permit
CallAcquire_OwnGate(i) ==
    /\ pc[i] = "start" /\ Arrived(i)
    /\ ~closed
    /\ permit' = [permit EXCEPT ![i] = TRUE]
    /\ IssueGet(i)
    /\ UNCHANGED <<permits, waiters, closed, status, last, ex>>

\* fetch_talent_build is called; acquire() finds a free permit and the
\* call goes on to send its request
CallAcquire(i) ==
    /\ pc[i] = "start" /\ Arrived(i)
    /\ ~closed
    /\ permits > 0 /\ waiters = <<>>
    /\ permits' = permits - 1
    /\ permit' = [permit EXCEPT ![i] = TRUE]
    /\ IssueGet(i)
    /\ UNCHANGED <<waiters, closed, status, last, ex>>

\* fetch_talent_build is called; acquire() finds no permit and queues
CallWait(i) ==
    /\ pc[i] = "start" /\ Arrived(i)
    /\ ~closed
    /\ ~(permits > 0 /\ waiters = <<>>)
    /\ waiters' = Append(waiters, i)
    /\ pc' = [pc EXCEPT ![i] = "waiting"]
    /\ UNCHANGED <<permits, closed, permit, gets, status, last, ex>>

\* a call that was handed a permit while queued is polled again
Resume(i) ==
    /\ pc[i] = "acquired"
    /\ IssueGet(i)
    /\ UNCHANGED <<gate, permit, status, last, ex>>

\* variant: the permit is forgotten instead of released
DropPermit_Leak(i) ==
    /\ waiters' = waiters
    /\ permits' = permits
    /\ permit' = [permit EXCEPT ![i] = FALSE]
    /\ pc' = [pc EXCEPT ![i] = "done"]

\* variant: a freed permit goes back to the semaphore and no waiter is woken
DropPermit_NoWake(i) ==
    /\ waiters' = waiters
    /\ permits' = IF permit[i] THEN permits + 1 ELSE permits
    /\ permit' = [permit EXCEPT ![i] = FALSE]
    /\ pc' = [pc EXCEPT ![i] = "done"]

\* Drop of _permit: a freed permit goes to the oldest waiter if there is
\* one, else back to the semaphore
DropPermit(i) ==
    IF permit[i] /\ waiters # <<>>
    THEN LET h == Head(waiters) IN
         /\ waiters' = Tail(waiters)
         /\ permits' = permits
         /\ permit' = [permit EXCEPT ![i] = FALSE, ![h] = TRUE]
         /\ pc' = [pc EXCEPT ![i] = "done", ![h] = "acquired"]
    ELSE /\ waiters' = waiters
         /\ permits' = IF permit[i] THEN permits + 1 ELSE permits
         /\ permit' = [permit EXCEPT ![i] = FALSE]
         /\ pc' = [pc EXCEPT ![i] = "done"]

\* return: the locals of the call are dropped, rec goes to the caller
Return(i, rec) ==
    /\ last' = rec
    /\ status' = [status EXCEPT ![i] = 0]
    /\ closed' = closed
    /\ DropPermit(i)

\* variant: the transport error is propagated with ?
SendFails_Propagate(i) ==
    /\ pc[i] = "sending"
    /\ Return(i, Record(permit[i], "err", 0, "none", <<>>, <<>>, 0, Err("Failed to fetch")))
    /\ UNCHANGED <<gets, ex>>

\* variant: the transport error is swallowed without the eprintln!
SendFails_Silent(i) ==
    /\ pc[i] = "sending"
    /\ Return(i, Record(permit[i], "err", 0, "none", <<>>, <<>>, 0, Ok(None)))
    /\ UNCHANGED <<gets, ex>>

\* variant: a failed send is tried again
SendFails_Retry(i) ==
    /\ pc[i] = "sending"
    /\ IssueGet(i)
    /\ UNCHANGED <<gate, permit, status, last, ex>>

\* send() fails: Err(e) => eprintln!, return Ok(None)
SendFails(i) ==
    /\ pc[i] = "sending"
    /\ Return(i, Record(permit[i], "err", 0, "none", <<>>, <<"Failed to fetch">>, 0, Ok(None)))
    /\ UNCHANGED <<gets, ex>>

\* variant: status 500 is turned into an error (error_for_status()?)
Respond500_Error(i) ==
    /\ pc[i] = "sending"
    /\ Return(i, Record(permit[i], "ok", INTERNAL_SERVER_ERROR, "none", <<>>, <<>>, 0,
                        Err("HTTP 500")))
    /\ UNCHANGED <<gets, ex>>

\* variant: the test for 500 is missing, 500 is handled as any non-success
Respond500_Logged(i) ==
    /\ pc[i] = "sending"
    /\ Return(i, Record(permit[i], "ok", INTERNAL_SERVER_ERROR, "none", <<>>, <<"HTTP">>, 0,
                        Ok(None)))
    /\ UNCHANGED <<gets, ex>>

\* send() gives a response with status 500: return Ok(None)
Respond500(i) ==
    /\ pc[i] = "sending"
    /\ Return(i, Record(permit[i], "ok", INTERNAL_SERVER_ERROR, "none", <<>>, <<>>, 0, Ok(None)))
    /\ UNCHANGED <<gets, ex>>

\* send() gives a response with another status s: when s is no success,
\* eprintln! and return Ok(None), else go on to response.text()
Respond(i, s) ==
    /\ pc[i] = "sending"
    /\ s # INTERNAL_SERVER_ERROR
    /\ IF ~is_success(s)
       THEN Return(i, Record(permit[i], "ok", s, "none", <<>>, <<"HTTP">>, 0, Ok(None)))
       ELSE /\ status' = [status EXCEPT ![i] = s]
            /\ pc' = [pc EXCEPT ![i] = "reading"]
            /\ UNCHANGED <<gate, permit, last>>
    /\ UNCHANGED <<gets, ex>>

\* variant: an unreadable body is taken as an empty one (unwrap_or_default)
BodyFails_Swallow(i) ==
    /\ pc[i] = "reading"
    /\ Return(i, Record(permit[i], "ok", status[i], "err", <<>>, <<>>, 1,
                        extract_talent_string(<<>>)))
    /\ UNCHANGED <<gets, ex>>

\* response.text() fails: the error is returned with its context
BodyFails(i) ==
    /\ pc[i] = "reading"
    /\ Return(i, Record(permit[i], "ok", status[i], "err", <<>>, <<>>, 0,
                        Err("Failed to read response body")))
    /\ UNCHANGED <<gets, ex>>

\* variant: the extractor's result is dropped
BodyRead_Discard(i, b) ==
    /\ pc[i] = "reading"
    /\ Return(i, Record(permit[i], "ok", status[i], "ok", b, <<>>, 1, Ok(None)))
    /\ UNCHANGED <<gets, ex>>

\* variant: the text is kept in a buffer shared by the calls, and the
\* extractor reads what the call before left there
BodyRead_Shared(i, b) ==
    /\ pc[i] = "reading"
    /\ Return(i, Record(permit[i], "ok", status[i], "ok", b, <<>>, 1,
                        extract_talent_string(last.html)))
    /\ UNCHANGED <<gets, ex>>

\* response.text() gives b; the extractor's result is returned
BodyRead(i, b) ==
    /\ pc[i] = "reading"
    /\ Return(i, Record(permit[i], "ok", status[i], "ok", b, <<>>, 1, extract_talent_string(b)))
    /\ UNCHANGED <<gets, ex>>

Next ==
    \E i \in Calls :
        \/ CallAcquire(i)
        \/ CallWait(i)
        \/ Resume(i)
        \/ SendFails(i)
        \/ Respond500(i)
        \/ \E s \in Statuses : Respond(i, s)
        \/ BodyFails(i)
        \/ \E b \in Bodies : BodyRead(i, b)

Spec == Init /\ [][Next]_vars

\* The same program against an environment that gives one answer of each
\* kind: every exit path of fetch_talent_build is taken
GateStatuses == {200, 404}

GateBodies == { << A(<<"h", "w", "x">>) >> }

GateNext ==
    \E i \in Calls :
        \/ CallAcquire(i)
        \/ CallWait(i)
        \/ Resume(i)
        \/ SendFails(i)
        \/ Respond500(i)
        \/ \E s \in GateStatuses : Respond(i, s)
        \/ BodyFails(i)
        \/ \E b \in GateBodies : BodyRead(i, b)

GateSpec == Init /\ [][GateNext]_vars

\* ------------------------------------------------ the gate is closed
\* Nothing in fetcher.rs closes the semaphore.  CloseSpec adds an
\* environment that does, which is the one way acquire() returns Err.

AcquireError == Err("Failed to acquire semaphore permit")

\* Semaphore::close: no more permits are issued, every waiter is woken
Close ==
    /\ ~closed
    /\ closed' = TRUE
    /\ waiters' = <<>>
    /\ pc' = [i \in Calls |-> IF pc[i] = "waiting" THEN "refused" ELSE pc[i]]
    /\ UNCHANGED <<permits, permit, gets, status, last, ex>>

\* variant: the error of acquire() is dropped (.ok()) and the call gives up
AcquireFails_Swallow(i) ==
    /\ \/ pc[i] = "start" /\ Arrived(i) /\ closed
       \/ pc[i] = "refused"
    /\ Return(i, Record(permit[i], "none", 0, "none", <<>>, <<>>, 0, Ok(None)))
    /\ UNCHANGED <<gets, ex>>

\* acquire() returns Err, at the call or when a woken waiter is polled:
\* the ? returns it with its context
AcquireFails(i) ==
    /\ \/ pc[i] = "start" /\ Arrived(i) /\ closed
       \/ pc[i] = "refused"
    /\ Return(i, Record(permit[i], "none", 0, "none", <<>>, <<>>, 0, AcquireError))
    /\ UNCHANGED <<gets, ex>>

CloseNext ==
    \/ Next
    \/ Close
    \/ \E i \in Calls : AcquireFails(i)

CloseSpec == Init /\ [][CloseNext]_vars

\* The gate is closed, against the environment of GateNext
GateCloseNext ==
    \/ GateNext
    \/ Close
    \/ \E i \in Calls : AcquireFails(i)

GateCloseSpec == Init /\ [][GateCloseNext]_vars

\* ------------------------------------------------ a call is abandoned
\* The future of a call is dropped while it is suspended in acquire().

\* variant: a permit already handed to the dropped waiter is not given back
Abandon_KeepsPermit(i) ==
    /\ pc[i] \in {"waiting", "acquired"}
    /\ waiters' = SelectSeq(waiters, LAMBDA j : j # i)
    /\ pc' = [pc EXCEPT ![i] = "dropped"]
    /\ UNCHANGED <<permits, closed, permit, gets, status, last, ex>>

\* Drop of the Acquire future: a queued waiter leaves the queue; a waiter
\* that was handed a permit and not polled since gives it back, to the
\* oldest waiter if there is one
Abandon(i) ==
    /\ closed' = closed
    /\ \/ /\ pc[i] = "waiting"
          /\ waiters' = SelectSeq(waiters, LAMBDA j : j # i)
          /\ pc' = [pc EXCEPT ![i] = "dropped"]
          /\ UNCHANGED <<permits, permit>>
       \/ /\ pc[i] = "acquired"
          /\ IF waiters # <<>>
             THEN LET h == Head(waiters) IN
                  /\ waiters' = Tail(waiters)
                  /\ permits' = permits
                  /\ permit' = [permit EXCEPT ![i] = FALSE, ![h] = TRUE]
                  /\ pc' = [pc EXCEPT ![i] = "dropped", ![h] = "acquired"]
             ELSE /\ waiters' = waiters
                  /\ permits' = permits + 1
                  /\ permit' = [permit EXCEPT ![i] = FALSE]
                  /\ pc' = [pc EXCEPT ![i] = "dropped"]
    /\ UNCHANGED <<gets, status, last, ex>>

AbandonNext ==
    \/ GateNext
    \/ \E i \in Calls : Abandon(i)

\* the calls that are not abandoned go on being polled
AbandonSpec == Init /\ [][AbandonNext]_vars /\ WF_vars(GateNext)

\* ------------------------------------------- the extractor on its own
ExtractInit ==
    /\ permits = MAX_CONCURRENT_REQUESTS
    /\ waiters = <<>>
    /\ closed = FALSE
    /\ pc = [i \in Calls |-> "start"]
    /\ permit = [i \in Calls |-> FALSE]
    /\ gets = [i \in Calls |-> 0]
    /\ status = [i \in Calls |-> 0]
    /\ last = NoReturn
    /\ \E n \in 0 .. MaxElems : ex_html \in [1 .. n -> Elems]
    /\ ex_result = Pending

ExtractRun ==
    /\ ex_result = Pending
    /\ ex_result' = extract_talent_string(ex_html)
    /\ UNCHANGED <<gate, pc, permit, gets, status, last, ex_html>>

ExtractSpec == ExtractInit /\ [][ExtractRun]_vars

\* The runtime polls every task that can run, and every request in flight
\* finishes: the client's REQUEST_TIMEOUT ends a send or a body read that
\* gets no answer.  So the system never stops while a step is possible.
FairSpec == GateSpec /\ WF_vars(GateNext)

\* ================================================================ claims
Holding(i) == permit[i]

\* between 'permit acquired' and 'returned'
Admitted(i) == pc[i] \in {"acquired", "sending", "reading"}

\* the GET of the call is out
Requested(i) == pc[i] \in {"sending", "reading"}

AllReturned == \A i \in Calls : pc[i] = "done"

Returned == last # NoReturn

\* C1: at most MAX_CONCURRENT_REQUESTS calls are between acquiring the
\* permit and returning, and a call whose GET is out holds a permit
C1_AtMostFiveAdmitted ==
    /\ Cardinality({i \in Calls : Admitted(i)}) <= MAX_CONCURRENT_REQUESTS
    /\ \A i \in Calls : Requested(i) => Holding(i)
    /\ \A i \in Calls : gets[i] > 0 => (Holding(i) \/ pc[i] = "done")

\* five calls have their request out and a sixth waits
C1_Witness ==
    /\ Cardinality({i \in Calls : Requested(i)}) = MAX_CONCURRENT_REQUESTS
    /\ waiters # <<>>

\* C2: with more than five calls and every request finishing, every call,
\* also one that had to wait, gets to send its request (which takes a
\* permit) and returns
C2_EveryCallServed ==
    <>(\A i \in Calls : pc[i] = "done" /\ gets[i] = 1 /\ ~Holding(i))

\* a call that had to wait has been handed the permit of one that returned
C2_Witness ==
    /\ \A i \in Calls : pc[i] # "start"
    /\ \E i \in Calls : pc[i] = "acquired" /\ Holding(i)
    /\ \E i \in Calls : pc[i] = "done"

\* C3: available permits + calls holding one = 5 in every state, and
\* when every call has returned all 5 permits are available
C3_PermitsConserved ==
    /\ permits + Cardinality({i \in Calls : Holding(i)}) = MAX_CONCURRENT_REQUESTS
    /\ \A i \in Calls : pc[i] = "done" => ~Holding(i)
    /\ AllReturned => permits = MAX_CONCURRENT_REQUESTS

\* every call has returned, some of them after waiting, the last one
\* through a failed body read
C3_Witness ==
    /\ AllReturned
    /\ permits = MAX_CONCURRENT_REQUESTS
    /\ last.held /\ last.body = "err"

\* C4: Failed is returned only when no permit was acquired or when the
\* body of a 2xx response could not be read
C4_FailedOnlyOnIntegrityFailure ==
    Outcome(last.result) = "Failed" =>
        \/ ~last.held /\ last.send = "none"
        \/ last.send = "ok" /\ is_success(last.status) /\ last.body = "err"

\* a call returned Failed for an unreadable body
C4_Witness ==
    /\ Outcome(last.result) = "Failed"
    /\ last.body = "err"

\* C5: a response with status 500 gives NotFound, the body is not read
\* and the extractor is not run
C5_Status500IsNotFound ==
    last.status = INTERNAL_SERVER_ERROR =>
        /\ Outcome(last.result) = "NotFound"
        /\ last.body = "none"
        /\ last.extracted = 0

C5_Witness ==
    /\ last.status = INTERNAL_SERVER_ERROR
    /\ Outcome(last.result) = "NotFound"

\* C6: a transport failure writes one diagnostic line and gives NotFound
C6_TransportFailureIsNotFound ==
    last.send = "err" =>
        /\ Outcome(last.result) = "NotFound"
        /\ Len(last.logs) = 1

C6_Witness ==
    /\ last.send = "err"
    /\ last.logs = <<"Failed to fetch">>

\* C7: a non-success status other than 500 gives NotFound with one
\* diagnostic line, status 500 gives NotFound with none
C7_OtherStatusLoggedNotFound ==
    /\ (last.send = "ok" /\ ~is_success(last.status) /\ last.status # INTERNAL_SERVER_ERROR) =>
            (Outcome(last.result) = "NotFound" /\ Len(last.logs) = 1)
    /\ last.status = INTERNAL_SERVER_ERROR =>
            (Outcome(last.result) = "NotFound" /\ last.logs = <<>>)

C7_Witness ==
    /\ last.status = 503
    /\ last.logs = <<"HTTP">>
    /\ Outcome(last.result) = "NotFound"

\* C8: a 2xx response whose body cannot be read gives Failed with the
\* cause, and the extractor is not run
C8_UnreadableBodyIsFailed ==
    (is_success(last.status) /\ last.body = "err") =>
        /\ Outcome(last.result) = "Failed"
        /\ last.result.cause # ""
        /\ last.extracted = 0

C8_Witness ==
    /\ last.status = 204
    /\ last.body = "err"
    /\ last.result = Err("Failed to read response body")

\* C9: Found(id) is returned exactly when the status is 2xx, the body was
\* read and the extractor gives id for it; a body with no identifier
\* gives NotFound
C9_FoundIffExtracted ==
    /\ Outcome(last.result) = "Found" =>
            /\ is_success(last.status)
            /\ last.body = "ok"
    /\ (Returned /\ last.body = "ok") =>
            /\ is_success(last.status)
            /\ last.extracted = 1
            /\ last.result = extract_talent_string(last.html)
            /\ Outcome(last.result) \in {"Found", "NotFound"}

\* a 204 response whose body holds the link was answered with its identifier
C9_Witness ==
    /\ Outcome(last.result) = "Found"
    /\ last.status = 204
    /\ last.html = << A(<<"h", "w", "x">>) >>
    /\ last.result.opt = Some(<<"x">>)

\* C10: an identifier the extractor yields is never the empty string
C10_IdentifierNonEmpty ==
    (ex_result.kind = "Ok" /\ IsSome(ex_result.opt)) => ex_result.opt[1] # <<>>

\* ------------------------------------------------ claims on the extractor
\* an anchor whose href contains 'wowhead.com/talent-calc/blizzard/'
Qualifying(el) ==
    /\ el.tag = "a"
    /\ el.href # None
    /\ Contains(el.href[1], <<"w">>)

\* the href is 'https://www.wowhead.com/talent-calc/blizzard/' followed by id
HrefIs(el, id) == el.href = Some(<<"h", "w">> \o id)

\* what follows the first two tokens of the href
Rest(el) == SubSeq(el.href[1], 3, Len(el.href[1]))

HasExactPrefix(el) ==
    /\ el.href # None
    /\ Len(el.href[1]) >= 2
    /\ SubSeq(el.href[1], 1, 2) = <<"h", "w">>

\* k is the first qualifying anchor of doc
FirstQualifying(doc, k) ==
    /\ k \in 1 .. Len(doc)
    /\ Qualifying(doc[k])
    /\ \A j \in 1 .. (k - 1) : ~Qualifying(doc[j])

Extracted == ex_result # Pending

\* C11: with several qualifying anchors the result is the identifier of
\* the first one in document order, whatever anchors follow
C11_FirstAnchorDecides ==
    Extracted =>
        \A k \in 1 .. Len(ex_html) :
            (FirstQualifying(ex_html, k) /\ HasExactPrefix(ex_html[k])) =>
                /\ HrefIs(ex_html[k], Rest(ex_html[k]))
                /\ ex_result = Ok(Some(Rest(ex_html[k])))

\* two qualifying anchors with different identifiers: the first one's is returned
C11_Witness ==
    /\ Len(ex_html) = 2
    /\ HrefIs(ex_html[1], <<"x">>)
    /\ HrefIs(ex_html[2], <<"w">>)
    /\ Qualifying(ex_html[1]) /\ Qualifying(ex_html[2])
    /\ ex_result = Ok(Some(<<"x">>))

\* C12: when the first qualifying anchor's href does not start with the
\* exact prefix the result is None, also when a later anchor does
C12_NoFallThrough ==
    Extracted =>
        \A k \in 1 .. Len(ex_html) :
            (FirstQualifying(ex_html, k) /\ ~HasExactPrefix(ex_html[k])) =>
                ex_result = Ok(None)

\* the first anchor holds the substring only, the second the exact prefix
C12_Witness ==
    /\ Len(ex_html) = 2
    /\ ex_html[1] = A(<<"x", "w", "x">>)
    /\ ex_html[2] = A(<<"h", "w", "x">>)
    /\ ex_result = Ok(None)

\* C13: a document with no qualifying anchor gives None
C13_NoAnchorIsNone ==
    (Extracted /\ \A k \in 1 .. Len(ex_html) : ~Qualifying(ex_html[k])) =>
        ex_result = Ok(None)

\* an anchor without href, and another element that carries the link
C13_Witness ==
    /\ ex_html = << Elem("a", None), Elem("div", Some(<<"h", "w", "x">>)) >>
    /\ ex_result = Ok(None)

\* C14: exactly one qualifying anchor, with href prefix + s and s not
\* empty, gives Some(s) verbatim: prefix + result is the href again
C14_SingleAnchorVerbatim ==
    Extracted =>
        \A k \in 1 .. Len(ex_html) :
            ( /\ Qualifying(ex_html[k])
              /\ \A j \in 1 .. Len(ex_html) : j # k => ~Qualifying(ex_html[j])
              /\ HasExactPrefix(ex_html[k])
              /\ Rest(ex_html[k]) # <<>> ) =>
                /\ ex_result = Ok(Some(Rest(ex_html[k])))
                /\ ex_html[k].href = Some(<<"h", "w">> \o ex_result.opt[1])

C14_Witness ==
    /\ ex_html = << Elem("div", None), A(<<"h", "w", "x">>) >>
    /\ ex_result = Ok(Some(<<"x">>))

\* C17: a first qualifying anchor whose href is exactly the prefix gives
\* Some(""), not None
C17_EmptyRemainderIsSome ==
    Extracted =>
        \A k \in 1 .. Len(ex_html) :
            (FirstQualifying(ex_html, k) /\ HrefIs(ex_html[k], <<>>)) =>
                ex_result = Ok(Some(<<>>))

C17_Witness ==
    /\ ex_html = << A(<<"h", "w">>) >>
    /\ ex_result = Ok(Some(<<>>))
    /\ ex_result # Ok(None)

\* ------------------------------------------- further claims on the fetch
\* C15: a call issues at most one GET: once its request is out it only
\* reads the body or returns, and a call whose acquire() fails issues none
C15_SingleAttempt ==
    [][\A i \in Calls :
        /\ gets'[i] <= 1
        /\ gets[i] = 1 => gets'[i] = 1
        /\ Requested(i) => pc'[i] \in {"sending", "reading", "done"}
        /\ pc[i] = "reading" => pc'[i] \in {"reading", "done"}
        /\ pc[i] = "done" => pc'[i] = "done"
        /\ (pc[i] = "refused" \/ (pc[i] = "start" /\ closed)) => gets'[i] = 0
      ]_vars

\* one call has returned after its single GET, another was refused the
\* permit and has returned without any
C15_Witness ==
    /\ \E i \in Calls : pc[i] = "done" /\ gets[i] = 1
    /\ \E j \in Calls : pc[j] = "done" /\ gets[j] = 0
    /\ last.result = AcquireError

\* C18: a call whose acquire() fails returns Failed, sends no request and
\* leaves the permit count as it was
C18_AcquireFailureIsFailed ==
    [][\A i \in Calls :
        (pc[i] \in {"start", "refused"} /\ pc'[i] = "done") =>
            /\ Outcome(last'.result) = "Failed"
            /\ last'.send = "none"
            /\ ~last'.held
            /\ gets'[i] = 0
            /\ permits' = permits
            /\ permit' = permit
      ]_vars

\* the gate was closed while calls held permits; a refused call returned
C18_Witness ==
    /\ closed
    /\ Returned /\ ~last.held
    /\ last.result = AcquireError
    /\ \E i \in Calls : Holding(i)

\* what fetch_talent_build makes of one HTTP result
Classify(send, st, bd, h) ==
    IF send = "err" THEN Ok(None)
    ELSE IF ~is_success(st) THEN Ok(None)
    ELSE IF bd = "err" THEN Err("Failed to read response body")
    ELSE extract_talent_string(h)

\* C19: what a call returns is a function of its own HTTP result
\* (transport result, status, body), whatever the other calls do
C19_OutcomeFromOwnResult ==
    Returned => last.result = Classify(last.send, last.status, last.body, last.html)

\* a call returned its identifier while another call, with another
\* status, is reading its body, one waits and one has returned before
C19_Witness ==
    /\ Outcome(last.result) = "Found"
    /\ \E i \in Calls : pc[i] = "reading" /\ status[i] # last.status
    /\ \E i \in Calls : pc[i] = "acquired"
    /\ Cardinality({i \in Calls : pc[i] = "done"}) >= 2

\* C16: a call abandoned while it waits for a permit holds none from then
\* on, available permits + holders stays 5, and the calls that still wait
\* are handed permits and return
C16_AbandonedWaiterLeaksNothing ==
    /\ [](permits + Cardinality({i \in Calls : Holding(i)}) = MAX_CONCURRENT_REQUESTS)
    /\ [](\A i \in Calls : pc[i] = "dropped" => (~Holding(i) /\ gets[i] = 0))
    /\ [](\A i \in Calls : i \in {waiters[k] : k \in 1 .. Len(waiters)} => pc[i] = "waiting")
    /\ <>(\A i \in Calls : pc[i] = "dropped" \/ (pc[i] = "done" /\ gets[i] = 1))

\* a waiter was abandoned, and a call that queued behind it has since
\* been handed a permit and has its request out
C16_Witness ==
    \E i, j \in Calls :
        /\ i < j
        /\ pc[i] = "dropped"
        /\ j > MAX_CONCURRENT_REQUESTS + 1
        /\ pc[j] = "sending" /\ Holding(j)

TypeOK ==
    /\ permits \in 0 .. MAX_CONCURRENT_REQUESTS
    /\ \A i \in Calls :
        pc[i] \in {"start", "waiting", "acquired", "sending", "reading", "refused", "dropped", "done"}

====
